---- MODULE Spec2Model ----
(***************************************************************************)
(* The two list views of the alerting UI, AlertsList (alerts_list.tsx) and *)
(* ActionsList (actions_list.tsx), as one state machine.                   *)
(*                                                                         *)
(* State is the useState cells of the component that is mounted, the bag   *)
(* of API requests that are in flight (each with the values its awaiting   *)
(* closure captured), the danger toasts added so far and the number of     *)
(* promise rejections no handler caught.  One step is one user event or    *)
(* one request completion, run to the next await, followed by the effects  *)
(* (useEffect) of the render it causes.                                    *)
(***************************************************************************)
EXTENDS Naturals, Sequences, FiniteSets, Bags, TLC

(***************************************************************************)
(* Bounds.                                                                 *)
(***************************************************************************)
\* ids of the records the server can return: 1..MaxId
MaxId == 2
\* requests in flight at once
MaxInFlight == 2
\* failed requests in one run (danger toasts plus uncaught rejections)
MaxFailures == 1
\* highest page index the pagination bar offers
MaxPageIndex == 1

\* useState<Pagination>({ index: 0, size: 10 })
InitialPageIndex == 0
InitialPageSize == 10

(***************************************************************************)
(* Values.  An optional value (T | undefined) is a sequence of length at   *)
(* most one: Undefined, or Some(v).                                        *)
(***************************************************************************)
Undefined == << >>
Some(v) == << v >>

Ids == 1 .. MaxId

\* the type ids records carry, and the ones the type registry of the server knows
\* (a record may name a type the registry does not hold); entries are { id, name }
TypeIds == {"t1", "t2"}
RegisteredTypeIds == {"t1"}
TypeName(t) == IF t = "t1" THEN "Type One" ELSE "Type Two"
TypeEntry(t) == [id |-> t, name |-> TypeName(t)]

\* a record never changes its type; odd ids are of type t1, even ids of t2
TypeIdOf(i) == IF i % 2 = 1 THEN "t1" ELSE "t2"

\* the alerts of the server: odd ids are enabled and not muted, even ids are
\* disabled and muted, so each of the four row actions is offered on some row
Alerts ==
  { [id |-> i, alertTypeId |-> TypeIdOf(i), enabled |-> (i % 2 = 1), muteAll |-> (i % 2 = 0)] :
      i \in Ids }

Actions == { [id |-> i, actionTypeId |-> TypeIdOf(i)] : i \in Ids }

\* lists without a repeated id, in ascending id order (the order of the server)
RowLists(S) ==
  { l \in UNION { [1 .. n -> S] : n \in 0 .. MaxId } :
      \A i \in 1 .. Len(l) : \A j \in 1 .. Len(l) : i < j => l[i].id < l[j].id }

\* responses of loadAlerts: { data, total }, total counting the rows of all pages
AlertsResponses ==
  UNION { { [data |-> l, total |-> t] : t \in {Len(l), Len(l) + InitialPageSize} } :
            l \in RowLists(Alerts) }

\* responses of loadAllActions: { data }
ActionsResponses == { [data |-> l] : l \in RowLists(Actions) }

\* responses of loadAlertTypes / loadActionTypes: a list of registry entries,
\* none of them twice
TypesResponses ==
  { l \in UNION { [1 .. n -> {TypeEntry(t) : t \in RegisteredTypeIds}] :
                    n \in 0 .. Cardinality(RegisteredTypeIds) } :
      \A i \in 1 .. Len(l) : \A j \in 1 .. Len(l) : i < j => l[i].id # l[j].id }

Pages == { [index |-> i, size |-> InitialPageSize] : i \in 0 .. MaxPageIndex }
\* the query texts the search bar reports
QueryTexts == {"a"}

\* all sublists of a list, in list order (what a table selection can be)
RECURSIVE SubLists(_)
SubLists(l) ==
  IF l = << >> THEN { << >> }
  ELSE LET rest == SubLists(Tail(l))
       IN rest \cup { << Head(l) >> \o r : r \in rest }

SeqRange(l) == { l[i] : i \in 1 .. Len(l) }

VARIABLES
  mounted,              \* "none", "AlertsList" or "ActionsList"
  canDelete,            \* capabilities.get().<section>.delete of the mounted list
  canSave,              \* capabilities.get().alerting.save
  AlertsList,           \* the useState cells of AlertsList
  ActionsList,          \* the useState cells of ActionsList
  pending,              \* bag of the API requests in flight
  toasts,               \* titles given to toastNotifications.addDanger, in order
  unhandledRejections,  \* rejections of handler promises that nothing caught
  deletedSinceLoad      \* history: ids whose deleteActions succeeded since the last
                        \* loadAllActions response replaced the actions

vars ==
  << mounted, canDelete, canSave, AlertsList, ActionsList, pending, toasts,
     unhandledRejections, deletedSinceLoad >>

(***************************************************************************)
(* Shared helpers.                                                         *)
(***************************************************************************)
InFlight == BagCardinality(pending)
Issue(bag, r) == bag (+) SetToBag({r})
Complete(bag, r) == bag (-) SetToBag({r})
Requests(call) == { r \in BagToSet(pending) : r.call = call }

\* the budget of failures left in this run
MayFail == Len(toasts) + unhandledRejections < MaxFailures

\* items.map(item => item.id)
IdsOf(items) == [i \in 1 .. Len(items) |-> items[i].id]

\* for (const t of types) { index[t.id] = t; }
RECURSIVE BuildIndex(_, _)
BuildIndex(types, index) ==
  IF types = << >> THEN index
  ELSE BuildIndex(Tail(types), (Head(types).id :> Head(types)) @@ index)

(***************************************************************************)
(* AlertsList                                                              *)
(***************************************************************************)
InitialAlertsList ==
  [ alertTypesIndex     |-> Undefined,
    alerts              |-> << >>,
    data                |-> << >>,
    selectedItems       |-> << >>,
    isLoadingAlertTypes |-> FALSE,
    isLoadingAlerts     |-> FALSE,
    isPerformingAction  |-> FALSE,
    totalItemCount      |-> 0,
    page                |-> [index |-> InitialPageIndex, size |-> InitialPageSize],
    searchText          |-> Undefined ]

\* AlertTableItem with the lookup of the type name left out
AlertTableItemWithRawType(alert, index) ==
  [ id          |-> alert.id,
    alertTypeId |-> alert.alertTypeId,
    enabled     |-> alert.enabled,
    muteAll     |-> alert.muteAll,
    alertType   |-> alert.alertTypeId ]

\* the table item of an alert: { ...alert, alertType: name of its type, or its type id }
AlertTableItem(alert, index) ==
  [ id          |-> alert.id,
    alertTypeId |-> alert.alertTypeId,
    enabled     |-> alert.enabled,
    muteAll     |-> alert.muteAll,
    alertType   |-> IF alert.alertTypeId \in DOMAIN index
                    THEN index[alert.alertTypeId].name
                    ELSE alert.alertTypeId ]

\* MapAlertsEffect without the early return: before the types have loaded the
\* rows are mapped with an empty index
MapAlertsEffectBeforeTypes(s) ==
  [s EXCEPT !.data =
     [i \in 1 .. Len(s.alerts) |->
        [ id          |-> s.alerts[i].id,
          alertTypeId |-> s.alerts[i].alertTypeId,
          enabled     |-> s.alerts[i].enabled,
          muteAll     |-> s.alerts[i].muteAll,
          alertType   |-> IF s.alertTypesIndex # << >>
                             /\ s.alerts[i].alertTypeId \in DOMAIN s.alertTypesIndex[1]
                          THEN s.alertTypesIndex[1][s.alerts[i].alertTypeId].name
                          ELSE s.alerts[i].alertTypeId ]]]

\* useEffect(..., [alerts, alertTypesIndex]): nothing before the types have loaded
MapAlertsEffect(s) ==
  IF s.alertTypesIndex = Undefined THEN s
  ELSE [s EXCEPT !.data =
          [i \in 1 .. Len(s.alerts) |-> AlertTableItem(s.alerts[i], s.alertTypesIndex[1])]]

\* the request of loadAlertsData(), with the page and searchText of its closure;
\* awaitedBy is "action" when an action handler awaits the call, else "none"
LoadAlertsRequest(page, searchText, awaitedBy) ==
  [call |-> "loadAlerts", page |-> page, searchText |-> searchText, awaitedBy |-> awaitedBy]

RowActionCalls ==
  {"enableAlert", "disableAlert", "muteAllAlertInstances", "unmuteAllAlertInstances"}

\* EuiBasicTable loading={isLoadingAlerts || isLoadingAlertTypes || isPerformingAction}
AlertsTableLoading ==
  AlertsList.isLoadingAlerts \/ AlertsList.isLoadingAlertTypes \/ AlertsList.isPerformingAction

\* the Delete button disabled by permission alone
AlertsDeleteButtonIgnoresSelection == ~canDelete

\* EuiButton key="delete": isDisabled={selectedItems.length === 0 || !canDelete}
AlertsDeleteButtonIsDisabled == Len(AlertsList.selectedItems) = 0 \/ ~canDelete

\* every row action enabled by the delete permission
AlertsRowActionEnabledByDelete(call) == canDelete

\* actions[].enabled of the row actions: () => canDelete, () => canSave
AlertsRowActionEnabled(call) == IF call = "deleteAlerts" THEN canDelete ELSE canSave

\* actions[].available of the row actions
AlertsRowActionAvailable(call, item) ==
  CASE call = "deleteAlerts"             -> TRUE
    [] call = "enableAlert"              -> ~item.enabled
    [] call = "disableAlert"             -> item.enabled
    [] call = "muteAllAlertInstances"    -> ~item.muteAll
    [] call = "unmuteAllAlertInstances"  -> item.muteAll

\* the component mounts: first render, then the three effects
MountAlertsList ==
  /\ mounted = "none"
  /\ mounted' = "AlertsList"
  /\ \E d \in BOOLEAN, s \in BOOLEAN : canDelete' = d /\ canSave' = s
  /\ AlertsList' = MapAlertsEffect(
       [AlertsList EXCEPT !.isLoadingAlerts = TRUE, !.isLoadingAlertTypes = TRUE])
  /\ pending' = Issue(Issue(pending,
                   LoadAlertsRequest(AlertsList.page, AlertsList.searchText, "none")),
                   [call |-> "loadAlertTypes"])
  /\ UNCHANGED << ActionsList, toasts, unhandledRejections, deletedSinceLoad >>

LoadAlertTypesSucceeds(alertTypes) ==
  /\ mounted = "AlertsList"
  /\ BagIn([call |-> "loadAlertTypes"], pending)
  /\ pending' = Complete(pending, [call |-> "loadAlertTypes"])
  /\ AlertsList' = MapAlertsEffect(
       [AlertsList EXCEPT !.alertTypesIndex = Some(BuildIndex(alertTypes, << >>)),
                          !.isLoadingAlertTypes = FALSE])
  /\ UNCHANGED << deletedSinceLoad, mounted, canDelete, canSave, ActionsList, toasts,
                  unhandledRejections >>

LoadAlertTypesFails ==
  /\ mounted = "AlertsList"
  /\ MayFail
  /\ BagIn([call |-> "loadAlertTypes"], pending)
  /\ pending' = Complete(pending, [call |-> "loadAlertTypes"])
  /\ toasts' = Append(toasts, "Unable to load alert types")
  /\ AlertsList' = [AlertsList EXCEPT !.isLoadingAlertTypes = FALSE]
  /\ UNCHANGED << deletedSinceLoad, mounted, canDelete, canSave, ActionsList,
                  unhandledRejections >>

\* ChangePage with the type effect depending on page: the types are loaded again
ChangePageReloadingTypes(changedPage) ==
  /\ mounted = "AlertsList"
  /\ BagCardinality(pending) + 1 < MaxInFlight
  /\ AlertsList' = [AlertsList EXCEPT !.page = changedPage, !.isLoadingAlerts = TRUE,
                                      !.isLoadingAlertTypes = TRUE]
  /\ pending' = (pending (+) SetToBag({[call |-> "loadAlertTypes"]}))
                   (+) SetToBag({[call |-> "loadAlerts", page |-> changedPage,
                                  searchText |-> AlertsList.searchText, awaitedBy |-> "none"]})
  /\ UNCHANGED << deletedSinceLoad, mounted, canDelete, canSave, ActionsList, toasts,
                  unhandledRejections >>

\* EuiBasicTable onChange: setPage(changedPage), a new object, so the effect
\* [page, searchText] runs loadAlertsData of the new render
ChangePage(changedPage) ==
  /\ mounted = "AlertsList"
  /\ InFlight < MaxInFlight
  /\ AlertsList' = [AlertsList EXCEPT !.page = changedPage, !.isLoadingAlerts = TRUE]
  /\ pending' = Issue(pending, LoadAlertsRequest(changedPage, AlertsList.searchText, "none"))
  /\ UNCHANGED << deletedSinceLoad, mounted, canDelete, canSave, ActionsList, toasts,
                  unhandledRejections >>

\* ChangeSearch loading with the searchText of the render before the change
ChangeSearchWithStaleText(queryText) ==
  /\ mounted = "AlertsList"
  /\ BagCardinality(pending) < MaxInFlight
  /\ IF AlertsList.searchText = Some(queryText)
     THEN UNCHANGED << AlertsList, pending >>
     ELSE /\ AlertsList' = [AlertsList EXCEPT !.searchText = Some(queryText),
                                              !.isLoadingAlerts = TRUE]
          /\ pending' = pending (+) SetToBag({[call |-> "loadAlerts", page |-> AlertsList.page,
                                               searchText |-> AlertsList.searchText,
                                               awaitedBy |-> "none"]})
  /\ UNCHANGED << deletedSinceLoad, mounted, canDelete, canSave, ActionsList, toasts,
                  unhandledRejections >>

\* EuiSearchBar onChange: setSearchText(queryText); an equal string is no state
\* change, so no render and no effect
ChangeSearch(queryText) ==
  /\ mounted = "AlertsList"
  /\ InFlight < MaxInFlight
  /\ IF AlertsList.searchText = Some(queryText)
     THEN UNCHANGED << AlertsList, pending >>
     ELSE /\ AlertsList' = [AlertsList EXCEPT !.searchText = Some(queryText),
                                              !.isLoadingAlerts = TRUE]
          /\ pending' = Issue(pending,
                           LoadAlertsRequest(AlertsList.page, Some(queryText), "none"))
  /\ UNCHANGED << deletedSinceLoad, mounted, canDelete, canSave, ActionsList, toasts,
                  unhandledRejections >>

\* selection.onSelectionChange: the table reports a selection among its items
AlertsSelectionChange(updatedSelectedItemsList) ==
  /\ mounted = "AlertsList"
  /\ updatedSelectedItemsList \in SubLists(AlertsList.data)
  /\ AlertsList' = [AlertsList EXCEPT !.selectedItems = updatedSelectedItemsList]
  /\ UNCHANGED << deletedSinceLoad, mounted, canDelete, canSave, ActionsList, pending, toasts,
                  unhandledRejections >>

\* <AlertAdd refreshList={loadAlertsData}>: the flyout calls loadAlertsData
RefreshList ==
  /\ mounted = "AlertsList"
  /\ InFlight < MaxInFlight
  /\ AlertsList' = [AlertsList EXCEPT !.isLoadingAlerts = TRUE]
  /\ pending' = Issue(pending,
                   LoadAlertsRequest(AlertsList.page, AlertsList.searchText, "none"))
  /\ UNCHANGED << deletedSinceLoad, mounted, canDelete, canSave, ActionsList, toasts,
                  unhandledRejections >>

LoadAlertsSucceeds(r, alertsResponse) ==
  /\ mounted = "AlertsList"
  /\ r \in Requests("loadAlerts")
  /\ pending' = Complete(pending, r)
  /\ AlertsList' = MapAlertsEffect(
       [AlertsList EXCEPT !.alerts = alertsResponse.data,
                          !.totalItemCount = alertsResponse.total,
                          !.isLoadingAlerts = FALSE,
                          !.isPerformingAction = IF r.awaitedBy = "action" THEN FALSE ELSE @])
  /\ UNCHANGED << deletedSinceLoad, mounted, canDelete, canSave, ActionsList, toasts,
                  unhandledRejections >>

\* LoadAlertsFails emptying the list it could not load
LoadAlertsFailsClearingAlerts(r) ==
  /\ mounted = "AlertsList"
  /\ MayFail
  /\ r \in Requests("loadAlerts")
  /\ pending' = Complete(pending, r)
  /\ toasts' = Append(toasts, "Unable to load alerts")
  /\ AlertsList' =
       [AlertsList EXCEPT !.alerts = << >>, !.data = << >>, !.totalItemCount = 0,
                          !.isLoadingAlerts = FALSE,
                          !.isPerformingAction = IF r.awaitedBy = "action" THEN FALSE ELSE @]
  /\ UNCHANGED << deletedSinceLoad, mounted, canDelete, canSave, ActionsList,
                  unhandledRejections >>

\* LoadAlertsFails issuing the failed request again
LoadAlertsFailsAndRetries(r) ==
  /\ mounted = "AlertsList"
  /\ MayFail
  /\ r \in Requests("loadAlerts")
  /\ toasts' = Append(toasts, "Unable to load alerts")
  /\ UNCHANGED << deletedSinceLoad, mounted, canDelete, canSave, AlertsList, ActionsList,
                  pending,
                  unhandledRejections >>

LoadAlertsFails(r) ==
  /\ mounted = "AlertsList"
  /\ MayFail
  /\ r \in Requests("loadAlerts")
  /\ pending' = Complete(pending, r)
  /\ toasts' = Append(toasts, "Unable to load alerts")
  /\ AlertsList' =
       [AlertsList EXCEPT !.isLoadingAlerts = FALSE,
                          !.isPerformingAction = IF r.awaitedBy = "action" THEN FALSE ELSE @]
  /\ UNCHANGED << deletedSinceLoad, mounted, canDelete, canSave, ActionsList,
                  unhandledRejections >>

\* deleteItems(items) up to its first await
AlertsDeleteItems(items) ==
  /\ InFlight < MaxInFlight
  /\ AlertsList' = [AlertsList EXCEPT !.isPerformingAction = TRUE]
  /\ pending' = Issue(pending,
       [call |-> "deleteAlerts", ids |-> IdsOf(items),
        page |-> AlertsList.page, searchText |-> AlertsList.searchText])
  /\ UNCHANGED << deletedSinceLoad, mounted, canDelete, canSave, ActionsList, toasts,
                  unhandledRejections >>

\* the Delete button of the search bar: deleteSelectedItems
ClickDeleteSelectedAlerts ==
  /\ mounted = "AlertsList"
  /\ ~AlertsDeleteButtonIsDisabled
  /\ AlertsDeleteItems(AlertsList.selectedItems)

\* the trash icon of a row: deleteItems([item])
ClickDeleteAlert(item) ==
  /\ mounted = "AlertsList"
  /\ item \in SeqRange(AlertsList.data)
  /\ AlertsRowActionEnabled("deleteAlerts")
  /\ AlertsDeleteItems(<< item >>)

\* the onClick of the Enable, Disable, Mute all and Unmute all row actions, up to
\* its first await
ClickRowAction(call, item) ==
  /\ mounted = "AlertsList"
  /\ InFlight < MaxInFlight
  /\ item \in SeqRange(AlertsList.data)
  /\ AlertsRowActionEnabled(call)
  /\ AlertsRowActionAvailable(call, item)
  /\ AlertsList' = [AlertsList EXCEPT !.isPerformingAction = TRUE]
  /\ pending' = Issue(pending,
       [call |-> call, id |-> item.id,
        page |-> AlertsList.page, searchText |-> AlertsList.searchText])
  /\ UNCHANGED << deletedSinceLoad, mounted, canDelete, canSave, ActionsList, toasts,
                  unhandledRejections >>

ClickEnable(item) == ClickRowAction("enableAlert", item)
ClickDisable(item) == ClickRowAction("disableAlert", item)
ClickMuteAll(item) == ClickRowAction("muteAllAlertInstances", item)
ClickUnmuteAll(item) == ClickRowAction("unmuteAllAlertInstances", item)

\* await loadAlertsData() inside an action handler: the loadAlertsData of the
\* render the handler was created in, hence the page and searchText of request r
AwaitLoadAlertsData(r) ==
  /\ AlertsList' = [AlertsList EXCEPT !.isLoadingAlerts = TRUE]
  /\ pending' = Issue(Complete(pending, r), LoadAlertsRequest(r.page, r.searchText, "action"))

\* DeleteAlertsSucceeds calling loadAlertsData() without awaiting it
DeleteAlertsSucceedsWithoutAwait(r) ==
  /\ mounted = "AlertsList"
  /\ r \in Requests("deleteAlerts")
  /\ AlertsList' = [AlertsList EXCEPT !.isLoadingAlerts = TRUE, !.isPerformingAction = FALSE]
  /\ pending' = Issue(Complete(pending, r), LoadAlertsRequest(r.page, r.searchText, "none"))
  /\ UNCHANGED << deletedSinceLoad, mounted, canDelete, canSave, ActionsList, toasts,
                  unhandledRejections >>

DeleteAlertsSucceeds(r) ==
  /\ mounted = "AlertsList"
  /\ r \in Requests("deleteAlerts")
  /\ AwaitLoadAlertsData(r)
  /\ UNCHANGED << deletedSinceLoad, mounted, canDelete, canSave, ActionsList, toasts,
                  unhandledRejections >>

DeleteAlertsFails(r) ==
  /\ mounted = "AlertsList"
  /\ MayFail
  /\ r \in Requests("deleteAlerts")
  /\ toasts' = Append(toasts, "Failed to delete alert(s)")
  /\ AwaitLoadAlertsData(r)
  /\ UNCHANGED << deletedSinceLoad, mounted, canDelete, canSave, ActionsList,
                  unhandledRejections >>

RowActionSucceeds(r) ==
  /\ mounted = "AlertsList"
  /\ r \in BagToSet(pending)
  /\ r.call \in RowActionCalls
  /\ AwaitLoadAlertsData(r)
  /\ UNCHANGED << deletedSinceLoad, mounted, canDelete, canSave, ActionsList, toasts,
                  unhandledRejections >>

\* no try around the await: the onClick promise rejects and the handler stops
RowActionFails(r) ==
  /\ mounted = "AlertsList"
  /\ MayFail
  /\ r \in BagToSet(pending)
  /\ r.call \in RowActionCalls
  /\ pending' = Complete(pending, r)
  /\ unhandledRejections' = unhandledRejections + 1
  /\ UNCHANGED << deletedSinceLoad, mounted, canDelete, canSave, AlertsList, ActionsList,
                  toasts >>

(***************************************************************************)
(* ActionsList                                                             *)
(***************************************************************************)
InitialActionsList ==
  [ actionTypesIndex     |-> Undefined,
    actions              |-> << >>,
    data                 |-> << >>,
    selectedItems        |-> << >>,
    isLoadingActionTypes |-> FALSE,
    isLoadingActions     |-> FALSE,
    isDeletingActions    |-> FALSE ]

\* the table item of an action: { ...action, actionType: name of its type, or its type id }
ActionTableItem(action, index) ==
  [ id           |-> action.id,
    actionTypeId |-> action.actionTypeId,
    actionType   |-> IF action.actionTypeId \in DOMAIN index
                     THEN index[action.actionTypeId].name
                     ELSE action.actionTypeId ]

\* useEffect(..., [actions, actionTypesIndex]): nothing before the types have loaded
MapActionsEffect(s) ==
  IF s.actionTypesIndex = Undefined THEN s
  ELSE [s EXCEPT !.data =
          [i \in 1 .. Len(s.actions) |-> ActionTableItem(s.actions[i], s.actionTypesIndex[1])]]

\* EuiInMemoryTable loading={isLoadingActions || isLoadingActionTypes || isDeletingActions}
ActionsTableLoading ==
  \/ ActionsList.isLoadingActions
  \/ ActionsList.isLoadingActionTypes
  \/ ActionsList.isDeletingActions

\* EuiButton key="delete": isDisabled={selectedItems.length === 0 || !canDelete}
ActionsDeleteButtonIsDisabled == Len(ActionsList.selectedItems) = 0 \/ ~canDelete

\* actions[].enabled of the row Delete action: () => canDelete
ActionsRowActionEnabled == canDelete

\* the component mounts: first render, then the three effects
MountActionsList ==
  /\ mounted = "none"
  /\ mounted' = "ActionsList"
  /\ \E d \in BOOLEAN : canDelete' = d
  /\ ActionsList' = MapActionsEffect(
       [ActionsList EXCEPT !.isLoadingActions = TRUE, !.isLoadingActionTypes = TRUE])
  /\ pending' = Issue(Issue(pending, [call |-> "loadAllActions"]),
                      [call |-> "loadActionTypes"])
  /\ UNCHANGED << canSave, AlertsList, toasts, unhandledRejections, deletedSinceLoad >>

LoadActionTypesSucceeds(actionTypes) ==
  /\ mounted = "ActionsList"
  /\ BagIn([call |-> "loadActionTypes"], pending)
  /\ pending' = Complete(pending, [call |-> "loadActionTypes"])
  /\ ActionsList' = MapActionsEffect(
       [ActionsList EXCEPT !.actionTypesIndex = Some(BuildIndex(actionTypes, << >>)),
                           !.isLoadingActionTypes = FALSE])
  /\ UNCHANGED << deletedSinceLoad, mounted, canDelete, canSave, AlertsList, toasts,
                  unhandledRejections >>

LoadActionTypesFails ==
  /\ mounted = "ActionsList"
  /\ MayFail
  /\ BagIn([call |-> "loadActionTypes"], pending)
  /\ pending' = Complete(pending, [call |-> "loadActionTypes"])
  /\ toasts' = Append(toasts, "Unable to load action types")
  /\ ActionsList' = [ActionsList EXCEPT !.isLoadingActionTypes = FALSE]
  /\ UNCHANGED << deletedSinceLoad, mounted, canDelete, canSave, AlertsList,
                  unhandledRejections >>

\* loadActions() up to its await
LoadActions(bag) ==
  /\ ActionsList' = [ActionsList EXCEPT !.isLoadingActions = TRUE]
  /\ pending' = Issue(bag, [call |-> "loadAllActions"])

\* ActionsContext.Provider value={{ ..., loadActions }}: the flyout calls loadActions
ReloadActions ==
  /\ mounted = "ActionsList"
  /\ InFlight < MaxInFlight
  /\ LoadActions(pending)
  /\ UNCHANGED << deletedSinceLoad, mounted, canDelete, canSave, AlertsList, toasts,
                  unhandledRejections >>

LoadAllActionsSucceeds(actionsResponse) ==
  /\ mounted = "ActionsList"
  /\ BagIn([call |-> "loadAllActions"], pending)
  /\ pending' = Complete(pending, [call |-> "loadAllActions"])
  /\ ActionsList' = MapActionsEffect(
       [ActionsList EXCEPT !.actions = actionsResponse.data, !.isLoadingActions = FALSE])
  /\ deletedSinceLoad' = {}
  /\ UNCHANGED << mounted, canDelete, canSave, AlertsList, toasts, unhandledRejections >>

LoadAllActionsFails ==
  /\ mounted = "ActionsList"
  /\ MayFail
  /\ BagIn([call |-> "loadAllActions"], pending)
  /\ pending' = Complete(pending, [call |-> "loadAllActions"])
  /\ toasts' = Append(toasts, "Unable to load actions")
  /\ ActionsList' = [ActionsList EXCEPT !.isLoadingActions = FALSE]
  /\ UNCHANGED << deletedSinceLoad, mounted, canDelete, canSave, AlertsList,
                  unhandledRejections >>

\* selection.onSelectionChange: the table reports a selection among its items
ActionsSelectionChange(updatedSelectedItemsList) ==
  /\ mounted = "ActionsList"
  /\ updatedSelectedItemsList \in SubLists(ActionsList.data)
  /\ ActionsList' = [ActionsList EXCEPT !.selectedItems = updatedSelectedItemsList]
  /\ UNCHANGED << deletedSinceLoad, mounted, canDelete, canSave, AlertsList, pending, toasts,
                  unhandledRejections >>

\* deleteItems(items) up to its await; the request keeps the actions of the
\* render the handler was created in, which the code filters after the await
ActionsDeleteItems(items) ==
  /\ InFlight < MaxInFlight
  /\ ActionsList' = [ActionsList EXCEPT !.isDeletingActions = TRUE]
  /\ pending' = Issue(pending,
       [call |-> "deleteActions", ids |-> IdsOf(items), actions |-> ActionsList.actions])
  /\ UNCHANGED << deletedSinceLoad, mounted, canDelete, canSave, AlertsList, toasts,
                  unhandledRejections >>

\* the Delete button of the table's tools: deleteSelectedItems
ClickDeleteSelectedActions ==
  /\ mounted = "ActionsList"
  /\ ~ActionsDeleteButtonIsDisabled
  /\ ActionsDeleteItems(ActionsList.selectedItems)

\* the trash icon of a row: deleteItems([item])
ClickDeleteAction(item) ==
  /\ mounted = "ActionsList"
  /\ item \in SeqRange(ActionsList.data)
  /\ ActionsRowActionEnabled
  /\ ActionsDeleteItems(<< item >>)

\* actions.filter(action => !ids.includes(action.id))
WithoutIds(actions, ids) ==
  LET Kept(action) == action.id \notin SeqRange(ids)
  IN SelectSeq(actions, Kept)

DeleteActionsSucceeds(r) ==
  /\ mounted = "ActionsList"
  /\ r \in Requests("deleteActions")
  /\ pending' = Complete(pending, r)
  /\ ActionsList' = MapActionsEffect(
       [ActionsList EXCEPT !.actions = WithoutIds(r.actions, r.ids),
                           !.isDeletingActions = FALSE])
  /\ deletedSinceLoad' = deletedSinceLoad \cup SeqRange(r.ids)
  /\ UNCHANGED << mounted, canDelete, canSave, AlertsList, toasts, unhandledRejections >>

\* DeleteActionsFails without the refresh from the server
DeleteActionsFailsWithoutReload(r) ==
  /\ mounted = "ActionsList"
  /\ MayFail
  /\ r \in Requests("deleteActions")
  /\ toasts' = Append(toasts, "Failed to delete action(s)")
  /\ pending' = Complete(pending, r)
  /\ ActionsList' = [ActionsList EXCEPT !.isDeletingActions = FALSE]
  /\ UNCHANGED << deletedSinceLoad, mounted, canDelete, canSave, AlertsList,
                  unhandledRejections >>

\* catch: toast, loadActions() without await, then finally
DeleteActionsFails(r) ==
  /\ mounted = "ActionsList"
  /\ MayFail
  /\ r \in Requests("deleteActions")
  /\ toasts' = Append(toasts, "Failed to delete action(s)")
  /\ pending' = Issue(Complete(pending, r), [call |-> "loadAllActions"])
  /\ ActionsList' = [ActionsList EXCEPT !.isLoadingActions = TRUE,
                                        !.isDeletingActions = FALSE]
  /\ UNCHANGED << deletedSinceLoad, mounted, canDelete, canSave, AlertsList,
                  unhandledRejections >>

(***************************************************************************)
(* The specification.                                                      *)
(***************************************************************************)
Init ==
  /\ mounted = "none"
  /\ canDelete = FALSE
  /\ canSave = FALSE
  /\ AlertsList = InitialAlertsList
  /\ ActionsList = InitialActionsList
  /\ pending = EmptyBag
  /\ toasts = << >>
  /\ unhandledRejections = 0
  /\ deletedSinceLoad = {}

Next ==
  \/ MountAlertsList
  \/ \E alertTypes \in TypesResponses : LoadAlertTypesSucceeds(alertTypes)
  \/ LoadAlertTypesFails
  \/ \E changedPage \in Pages : ChangePage(changedPage)
  \/ \E queryText \in QueryTexts : ChangeSearch(queryText)
  \/ \E sel \in SubLists(AlertsList.data) : AlertsSelectionChange(sel)
  \/ RefreshList
  \/ \E r \in BagToSet(pending), resp \in AlertsResponses : LoadAlertsSucceeds(r, resp)
  \/ \E r \in BagToSet(pending) : LoadAlertsFails(r)
  \/ ClickDeleteSelectedAlerts
  \/ \E item \in SeqRange(AlertsList.data) : ClickDeleteAlert(item)
  \/ \E item \in SeqRange(AlertsList.data) : ClickEnable(item)
  \/ \E item \in SeqRange(AlertsList.data) : ClickDisable(item)
  \/ \E item \in SeqRange(AlertsList.data) : ClickMuteAll(item)
  \/ \E item \in SeqRange(AlertsList.data) : ClickUnmuteAll(item)
  \/ \E r \in BagToSet(pending) : DeleteAlertsSucceeds(r)
  \/ \E r \in BagToSet(pending) : DeleteAlertsFails(r)
  \/ \E r \in BagToSet(pending) : RowActionSucceeds(r)
  \/ \E r \in BagToSet(pending) : RowActionFails(r)
  \/ MountActionsList
  \/ \E actionTypes \in TypesResponses : LoadActionTypesSucceeds(actionTypes)
  \/ LoadActionTypesFails
  \/ ReloadActions
  \/ \E resp \in ActionsResponses : LoadAllActionsSucceeds(resp)
  \/ LoadAllActionsFails
  \/ \E sel \in SubLists(ActionsList.data) : ActionsSelectionChange(sel)
  \/ ClickDeleteSelectedActions
  \/ \E item \in SeqRange(ActionsList.data) : ClickDeleteAction(item)
  \/ \E r \in BagToSet(pending) : DeleteActionsSucceeds(r)
  \/ \E r \in BagToSet(pending) : DeleteActionsFails(r)

Spec == Init /\ [][Next]_vars

(***************************************************************************)
(* Properties.                                                             *)
(***************************************************************************)
MutatingCalls == RowActionCalls \cup {"deleteAlerts", "deleteActions"}
Mutating(bag) == { r \in BagToSet(bag) : r.call \in MutatingCalls }
MutatingCount(bag) ==
  LET RECURSIVE Sum(_)
      Sum(T) == IF T = {} THEN 0
                ELSE LET r == CHOOSE x \in T : TRUE IN CopiesIn(r, bag) + Sum(T \ {r})
  IN Sum(Mutating(bag))
\* nothing is in bag b more often than in bag a
WithinBag(b, a) == \A r \in BagToSet(b) : CopiesIn(r, b) <= CopiesIn(r, a)

\* C1: while the mutating request of some action is in flight, the action flag
\* of its list (isPerformingAction, isDeletingActions) is true.
C1_ActionFlagWhileMutating ==
  /\ (\E r \in BagToSet(pending) : r.call \in RowActionCalls \cup {"deleteAlerts"})
       => AlertsList.isPerformingAction
  /\ (\E r \in BagToSet(pending) : r.call = "deleteActions")
       => ActionsList.isDeletingActions

\* C2: no failure of an API call escapes the handler that issued it: the number
\* of rejections that nothing caught stays zero.
C2_EveryFailureCaught == unhandledRejections = 0

\* C3: once no request is in flight, the loading prop of the table (a loading
\* flag or the action flag) is false in both lists.
C3_IdleTableNotLoading ==
  pending = EmptyBag => ~AlertsTableLoading /\ ~ActionsTableLoading

\* C4: every selected item has the id of a row that is displayed.
C4_SelectionWithinRows ==
  /\ \A i \in 1 .. Len(AlertsList.selectedItems) :
       \E j \in 1 .. Len(AlertsList.data) :
         AlertsList.data[j].id = AlertsList.selectedItems[i].id
  /\ \A i \in 1 .. Len(ActionsList.selectedItems) :
       \E j \in 1 .. Len(ActionsList.data) :
         ActionsList.data[j].id = ActionsList.selectedItems[i].id

\* C5: a delete request in flight never carries an empty id list, and none is
\* in flight when the delete capability is false.
C5_DeleteNeedsSelectionAndPermission ==
  \A r \in BagToSet(pending) :
    r.call \in {"deleteAlerts", "deleteActions"} => Len(r.ids) > 0 /\ canDelete

\* a bulk delete of two selected rows is in flight
C5_Witness ==
  \E r \in BagToSet(pending) : r.call \in {"deleteAlerts", "deleteActions"} /\ Len(r.ids) = 2

\* C6: a delete request is in flight only with the delete capability, and an
\* enable, disable, mute or unmute request only with the save capability.
C6_RequestsFollowPermissions ==
  \A r \in BagToSet(pending) :
    /\ r.call = "deleteAlerts" => mounted = "AlertsList" /\ canDelete
    /\ r.call = "deleteActions" => mounted = "ActionsList" /\ canDelete
    /\ r.call \in RowActionCalls => mounted = "AlertsList" /\ canSave

\* a row action is in flight for a user who may save but not delete
C6_Witness ==
  /\ ~canDelete
  /\ \E r \in BagToSet(pending) : r.call \in RowActionCalls

\* C7: once the type index is loaded, data has the length and order of the
\* records, each item carries the fields of its record, and its type field is
\* the name of the index entry of the record's type id, or the raw type id when
\* the index has none.
C7_ItemsJoinTypeName ==
  /\ AlertsList.alertTypesIndex # Undefined =>
       LET index == AlertsList.alertTypesIndex[1]
           alerts == AlertsList.alerts
           data == AlertsList.data
       IN /\ Len(data) = Len(alerts)
          /\ \A i \in 1 .. Len(alerts) :
               /\ data[i].id = alerts[i].id
               /\ data[i].alertTypeId = alerts[i].alertTypeId
               /\ data[i].enabled = alerts[i].enabled
               /\ data[i].muteAll = alerts[i].muteAll
               /\ \A t \in DOMAIN index :
                    alerts[i].alertTypeId = t => data[i].alertType = index[t].name
               /\ alerts[i].alertTypeId \notin DOMAIN index =>
                    data[i].alertType = alerts[i].alertTypeId
  /\ ActionsList.actionTypesIndex # Undefined =>
       LET index == ActionsList.actionTypesIndex[1]
           actions == ActionsList.actions
           data == ActionsList.data
       IN /\ Len(data) = Len(actions)
          /\ \A i \in 1 .. Len(actions) :
               /\ data[i].id = actions[i].id
               /\ data[i].actionTypeId = actions[i].actionTypeId
               /\ \A t \in DOMAIN index :
                    actions[i].actionTypeId = t => data[i].actionType = index[t].name
               /\ actions[i].actionTypeId \notin DOMAIN index =>
                    data[i].actionType = actions[i].actionTypeId

\* two alerts are displayed, one under the name of its type and one, whose type
\* the index lacks, under its raw type id
C7_Witness ==
  /\ AlertsList.alertTypesIndex # Undefined
  /\ Len(AlertsList.data) = 2
  /\ AlertsList.data[1].alertType = "Type One"
  /\ AlertsList.data[2].alertType = "t2"

\* C8: one type request is issued, by the mount; no later step issues another,
\* and the step that ends the type load leaves none in flight.
C8_TypesFetchedOnceAtMount ==
  [][ /\ LET before == CopiesIn([call |-> "loadAlertTypes"], pending)
             after == CopiesIn([call |-> "loadAlertTypes"], pending')
         IN /\ IF mounted = "none" /\ mounted' = "AlertsList"
               THEN after = 1 ELSE after <= before
            /\ AlertsList.isLoadingAlertTypes /\ ~AlertsList'.isLoadingAlertTypes
                 => after = 0
      /\ LET before == CopiesIn([call |-> "loadActionTypes"], pending)
             after == CopiesIn([call |-> "loadActionTypes"], pending')
         IN /\ IF mounted = "none" /\ mounted' = "ActionsList"
               THEN after = 1 ELSE after <= before
            /\ ActionsList.isLoadingActionTypes /\ ~ActionsList'.isLoadingActionTypes
                 => after = 0
    ]_vars

\* the type load has failed, the page has changed since, a list load is in
\* flight and no type request is
C8_Witness ==
  /\ mounted = "AlertsList"
  /\ toasts = << "Unable to load alert types" >>
  /\ AlertsList.page.index # InitialPageIndex
  /\ Requests("loadAlerts") # {}
  /\ Requests("loadAlertTypes") = {}

\* C9: the mount of AlertsList and every change of page or searchText issue
\* one loadAlerts request, which carries the page and searchText of the new
\* state, and no other loadAlerts request.
C9_LoadOnPageOrSearchChange ==
  [][ ( \/ mounted = "none" /\ mounted' = "AlertsList"
        \/ AlertsList'.page # AlertsList.page
        \/ AlertsList'.searchText # AlertsList.searchText )
      => LET issued == [call |-> "loadAlerts", page |-> AlertsList'.page,
                        searchText |-> AlertsList'.searchText, awaitedBy |-> "none"]
         IN \A r \in BagToSet(pending) \cup BagToSet(pending') \cup {issued} :
              r.call = "loadAlerts" =>
                CopiesIn(r, pending') = CopiesIn(r, pending) + (IF r = issued THEN 1 ELSE 0)
    ]_vars

\* the page and the search text have both changed and the request of the last
\* change, with both new values, is in flight
C9_Witness ==
  /\ AlertsList.page.index # InitialPageIndex
  /\ AlertsList.searchText # Undefined
  /\ BagIn([call |-> "loadAlerts", page |-> AlertsList.page,
            searchText |-> AlertsList.searchText, awaitedBy |-> "none"], pending)

\* C10: a step in which a list load, a type load or a row action fails issues
\* no request; a step in which a delete fails issues no mutating request; and
\* no step issues more than one mutating request.
C10_NoRetries ==
  [][ /\ ( \/ unhandledRejections' > unhandledRejections
           \/ /\ Len(toasts') > Len(toasts)
              /\ toasts'[Len(toasts')] \in
                   {"Unable to load alerts", "Unable to load alert types",
                    "Unable to load actions", "Unable to load action types"} )
         => WithinBag(pending', pending) /\ BagCardinality(pending') < BagCardinality(pending)
      /\ ( /\ Len(toasts') > Len(toasts)
           /\ toasts'[Len(toasts')] \in
                {"Failed to delete alert(s)", "Failed to delete action(s)"} )
         => MutatingCount(pending') < MutatingCount(pending)
      /\ MutatingCount(pending') <= MutatingCount(pending) + 1
    ]_vars

\* a list load has failed and nothing is in flight after it
C10_Witness ==
  /\ toasts = << "Unable to load alerts" >>
  /\ AlertsList.alerts # << >>
  /\ pending = EmptyBag

\* the number of requests of one kind in a bag
CallCount(bag, call) ==
  LET RECURSIVE Sum(_)
      Sum(T) == IF T = {} THEN 0
                ELSE LET r == CHOOSE x \in T : TRUE IN CopiesIn(r, bag) + Sum(T \ {r})
  IN Sum({ r \in BagToSet(bag) : r.call = call })
\* a step adds the danger toast with this title
Toasted(title) == toasts' = Append(toasts, title)

\* C11: a step in which a delete fails adds one 'Failed to delete' toast, ends
\* the delete request, issues exactly one list load and leaves the records
\* list as it was.
C11_FailedDeleteRefreshes ==
  [][ /\ ( Len(toasts') > Len(toasts) /\ toasts'[Len(toasts')] = "Failed to delete alert(s)" )
         => /\ Toasted("Failed to delete alert(s)")
            /\ CallCount(pending', "deleteAlerts") + 1 = CallCount(pending, "deleteAlerts")
            /\ CallCount(pending', "loadAlerts") = CallCount(pending, "loadAlerts") + 1
            /\ AlertsList'.alerts = AlertsList.alerts
      /\ ( Len(toasts') > Len(toasts) /\ toasts'[Len(toasts')] = "Failed to delete action(s)" )
         => /\ Toasted("Failed to delete action(s)")
            /\ CallCount(pending', "deleteActions") + 1 = CallCount(pending, "deleteActions")
            /\ CallCount(pending', "loadAllActions") = CallCount(pending, "loadAllActions") + 1
            /\ ActionsList'.actions = ActionsList.actions
    ]_vars

\* a delete of actions has failed, the refresh is in flight and the actions are
\* still the ones displayed before
C11_Witness ==
  /\ toasts = << "Failed to delete action(s)" >>
  /\ BagIn([call |-> "loadAllActions"], pending)
  /\ ActionsList.actions # << >>

\* C12: in AlertsList a step that issues a mutating request sets the action
\* flag; a reload awaited by an action is issued only by the step in which a
\* mutating request completes; the action flag is cleared only by the step in
\* which such a reload completes.  In ActionsList the step in which a delete
\* succeeds issues no list load.
C12_ActionOrder ==
  [][ /\ ( mounted = "AlertsList" /\ MutatingCount(pending') > MutatingCount(pending) )
         => AlertsList'.isPerformingAction
      /\ ( \E q \in BagToSet(pending') :
             /\ q.call = "loadAlerts"
             /\ q.awaitedBy = "action"
             /\ CopiesIn(q, pending') > CopiesIn(q, pending) )
         => MutatingCount(pending') + 1 = MutatingCount(pending)
      /\ ( AlertsList.isPerformingAction /\ ~AlertsList'.isPerformingAction )
         => \E q \in BagToSet(pending) :
              /\ q.call = "loadAlerts"
              /\ q.awaitedBy = "action"
              /\ CopiesIn(q, pending') < CopiesIn(q, pending)
      /\ ( /\ CallCount(pending', "deleteActions") < CallCount(pending, "deleteActions")
           /\ toasts' = toasts )
         => CallCount(pending', "loadAllActions") <= CallCount(pending, "loadAllActions")
    ]_vars

\* the mutating request of an action has completed and its reload is in flight
\* under the action flag
C12_Witness ==
  /\ AlertsList.isPerformingAction
  /\ MutatingCount(pending) = 0
  /\ \E q \in BagToSet(pending) : q.call = "loadAlerts" /\ q.awaitedBy = "action"

\* C13: while the type index is undefined the rows stay empty; once it is set
\* the rows are those of the records list.
C13_NoRowsBeforeTypes ==
  /\ AlertsList.alertTypesIndex = Undefined => AlertsList.data = << >>
  /\ AlertsList.alertTypesIndex # Undefined =>
       IdsOf(AlertsList.data) = IdsOf(AlertsList.alerts)
  /\ ActionsList.actionTypesIndex = Undefined => ActionsList.data = << >>
  /\ ActionsList.actionTypesIndex # Undefined =>
       IdsOf(ActionsList.data) = IdsOf(ActionsList.actions)

\* the alerts have been loaded, the type load has failed and no row is shown
C13_Witness ==
  /\ toasts = << "Unable to load alert types" >>
  /\ AlertsList.alertTypesIndex = Undefined
  /\ AlertsList.alerts # << >>
  /\ AlertsList.data = << >>

\* C14: when no list load has failed, the response that is stored last (its
\* step leaves no loadAlerts request in flight) answers a request made with
\* the page and searchText that are current.
C14_StoredListIsForCurrentQuery ==
  [][ \A r \in BagToSet(pending) :
        ( /\ r.call = "loadAlerts"
          /\ CopiesIn(r, pending') < CopiesIn(r, pending)
          /\ toasts' = toasts
          /\ "Unable to load alerts" \notin SeqRange(toasts)
          /\ CallCount(pending', "loadAlerts") = 0 )
        => r.page = AlertsList'.page /\ r.searchText = AlertsList'.searchText
    ]_vars

\* C15: no action whose delete has succeeded since the last loadAllActions
\* response is in the actions list.
C15_DeletedActionsStayDeleted ==
  \A i \in 1 .. Len(ActionsList.actions) :
    ActionsList.actions[i].id \notin deletedSinceLoad

\* C16: while a list load or a type load is in flight its loading flag is true.
C16_LoadingWhileInFlight ==
  /\ Requests("loadAlerts") # {} => AlertsList.isLoadingAlerts
  /\ Requests("loadAlertTypes") # {} => AlertsList.isLoadingAlertTypes
  /\ Requests("loadAllActions") # {} => ActionsList.isLoadingActions
  /\ Requests("loadActionTypes") # {} => ActionsList.isLoadingActionTypes

\* C17: a step in which a list load fails adds one toast, clears the loading
\* flag and leaves the records, the total, the rows, the selection, the page
\* and the search text as they were; a step in which a loadAlerts succeeds
\* leaves alerts and totalItemCount as the data and total of one response.
C17_FailedLoadKeepsState ==
  [][ /\ ( Len(toasts') > Len(toasts) /\ toasts'[Len(toasts')] = "Unable to load alerts" )
         => /\ Toasted("Unable to load alerts")
            /\ ~AlertsList'.isLoadingAlerts
            /\ AlertsList'.alerts = AlertsList.alerts
            /\ AlertsList'.totalItemCount = AlertsList.totalItemCount
            /\ AlertsList'.data = AlertsList.data
            /\ AlertsList'.selectedItems = AlertsList.selectedItems
            /\ AlertsList'.page = AlertsList.page
            /\ AlertsList'.searchText = AlertsList.searchText
      /\ ( Len(toasts') > Len(toasts) /\ toasts'[Len(toasts')] = "Unable to load actions" )
         => /\ Toasted("Unable to load actions")
            /\ ~ActionsList'.isLoadingActions
            /\ ActionsList'.actions = ActionsList.actions
            /\ ActionsList'.data = ActionsList.data
            /\ ActionsList'.selectedItems = ActionsList.selectedItems
      /\ ( /\ CallCount(pending', "loadAlerts") < CallCount(pending, "loadAlerts")
           /\ toasts' = toasts )
         => [data |-> AlertsList'.alerts, total |-> AlertsList'.totalItemCount]
              \in AlertsResponses
    ]_vars

\* a list load has failed while rows were displayed and selected, and they
\* still are
C17_Witness ==
  /\ toasts = << "Unable to load alerts" >>
  /\ ~AlertsList.isLoadingAlerts
  /\ AlertsList.data # << >>
  /\ AlertsList.selectedItems # << >>
  /\ AlertsList.totalItemCount > Len(AlertsList.alerts)

\* C18: every id of a delete request is, in the step that issues the request,
\* the id of a row that is displayed.
C18_DeletedIdsAreDisplayed ==
  [][ \A r \in BagToSet(pending') :
        ( /\ r.call \in {"deleteAlerts", "deleteActions"}
          /\ CopiesIn(r, pending') > CopiesIn(r, pending) )
        => LET rows == IF r.call = "deleteAlerts" THEN AlertsList.data ELSE ActionsList.data
           IN \A i \in 1 .. Len(r.ids) : \E j \in 1 .. Len(rows) : rows[j].id = r.ids[i]
    ]_vars

====
